---- MODULE Spec2Model ----
(***************************************************************************)
(* A model of the chunked ingestion pipeline of eotdl:                     *)
(*   - the client chunk planner and uploaders of APIRepo.py,               *)
(*   - the server use cases IngestDatasetChunk and IngestDataset,          *)
(*   - the Dataset validators of models/dataset.py.                        *)
(*                                                                         *)
(* Byte quantities.  Python integers are unbounded and the planner works   *)
(* on sizes up to terabytes.  A byte count b is kept exactly as the record *)
(* [mib |-> b \div 2^20, rem |-> b % 2^20]; every chunk size and threshold *)
(* of the code is a whole number of MiB, so comparisons, additions of a    *)
(* chunk size and floor divisions by a chunk size are exact on the record. *)
(***************************************************************************)
EXTENDS Integers, Sequences, FiniteSets, TLC

VARIABLES
    \* ---- chunk planner (APIRepo.get_chunk_size) ----
    content_size,   \* the input of get_chunk_size
    chunk_size,     \* its result, NoBytes before the call
    \* ---- server: the collections of the persistent store and object storage ----
    users,          \* 'users' collection: uid -> [tier, dataset_count]
    usage,          \* 'usage' collection: the sequence of records persisted
    datasets,       \* 'datasets' collection: the set of documents, one per id
    storage,        \* object storage: id -> how many times each write was made under it
    nextId,         \* number of ids generate_id has handed out, plus one
    pending,        \* IngestDataset coroutines suspended at `await calculate_checksum`
    last,           \* the last request handled and its response
    nreq,           \* number of requests handled
    \* ---- client: ingest_large_dataset_parallel ----
    c_pc,           \* "idle", "submitting", "running", "returned", "raised", "completed"
    c_size,         \* os.stat(content_path).st_size
    c_parts,        \* the `parts` argument (the list prepare_large_upload returned)
    c_threads,      \* the `threads` argument
    c_tasks,        \* the `tasks` list built by the planning loop
    c_futures,      \* per task: "queued", "running", "ok", "failed", "raised"
    c_result,       \* what the call gave its caller: None, or "Exception" raised
    \* ---- server: the final request of IngestDatasetChunk, statement by statement ----
    fin,            \* the final request in progress and the statement it is at
    \* ---- models/dataset.py: one construction of a Dataset ----
    v_name,         \* the name given
    v_description,  \* the description given
    v_out,          \* what the validators and the constructor gave
    \* ---- one dataset document and its files: versions and File records ----
    d_migrate,      \* how the last run of migrate_db on the document ended
    d_versions,     \* the 'versions' array, which create_dataset_version pushes to
    d_files,        \* the File records of the dataset
    d_last,         \* the last file request a client sent
    \* ---- client: ingest_large_dataset and update_dataset, the sequential uploads ----
    s_pc,           \* "idle", "loop", "complete", "done"
    s_path,         \* "ingest_large_dataset" or "update_dataset"
    s_size,         \* os.stat(content_path).st_size
    s_parts,        \* the `parts` list the server gave
    s_index,        \* `index`: the bytes read so far
    s_read,         \* the part numbers of the chunks read, in order
    s_sent,         \* the part numbers posted, in order
    s_failed,       \* the part numbers whose post was not answered 200
    s_result        \* what the call gave its caller

vars == <<content_size, chunk_size, users, usage, datasets, storage, nextId, pending,
          last, nreq, c_pc, c_size, c_parts, c_threads, c_tasks, c_futures, c_result,
          fin, v_name, v_description, v_out, d_migrate, d_versions, d_files, d_last,
          s_pc, s_path, s_size, s_parts, s_index, s_read, s_sent, s_failed, s_result>>

planVars == <<content_size, chunk_size>>
serverVars == <<users, usage, datasets, storage, nextId, pending, last, nreq>>
clientVars == <<c_pc, c_size, c_parts, c_threads, c_tasks, c_futures, c_result>>
finVars == <<fin>>
validatorVars == <<v_name, v_description, v_out>>
versionVars == <<d_migrate, d_versions, d_files, d_last>>
seqVars == <<s_pc, s_path, s_size, s_parts, s_index, s_read, s_sent, s_failed, s_result>>

----------------------------------------------------------------------------
(* Bounds of the model *)

\* offsets around each planner threshold that the planner inputs cover, in MiB
PlanSpread == 2
\* requests the server handles in one behaviour
MaxReq == 3
\* ids generate_id hands out in one behaviour
MaxIds == 2
\* chunks of the file every upload session transfers
FileParts == 2
\* datasets.upload cap of the tiers in the 'tiers' collection
FreeUpload == 2
DevUpload == 3
\* largest client file, in MiB, and longest received-parts list
MaxFileMiB == 21
MaxPartsLen == 2
\* worker threads a caller may ask for, and the CPU count of the client machine
MaxThreads == 2
CpuCount == 2
\* names and descriptions the validators are given: the characters a name starts
\* with that are drawn freely, and the lengths around each length limit
NamePrefixLen == 2
LenSpread == 2

----------------------------------------------------------------------------
(* Byte arithmetic *)

\* 1024 * 1024
MiB == 1048576

Bytes(m, r) == [mib |-> m, rem |-> r]
NoBytes == Bytes(-1, 0)

BGe(a, b) == a.mib > b.mib \/ (a.mib = b.mib /\ a.rem >= b.rem)
BLt(a, b) == ~BGe(a, b)
BLe(a, b) == BGe(b, a)
BMin(a, b) == IF BLe(a, b) THEN a ELSE b
\* a + c and a // c for a size c that is a whole number of MiB
BAdd(a, c) == Bytes(a.mib + c.mib, a.rem)
BFloorDiv(a, c) == a.mib \div c.mib
\* ceil(a / c), the number of parts of a bytes cut into chunks of c bytes
BCeilDiv(a, c) ==
    (a.mib \div c.mib) + (IF a.mib % c.mib # 0 \/ a.rem # 0 THEN 1 ELSE 0)

----------------------------------------------------------------------------
(* APIRepo.get_chunk_size *)

\* 1024 * 1024 * 10, 1024 * 1024 * 100, 1024 * 1024 * 500
ChunkSmall == Bytes(10, 0)
ChunkMedium == Bytes(100, 0)
ChunkLarge == Bytes(500, 0)
\* 1024 * 1024 * 1024 * 100 and 1024 * 1024 * 1024 * 1000
Threshold100GB == Bytes(1024 * 100, 0)
Threshold1TB == Bytes(1024 * 1000, 0)

\* update_dataset: `chunk_size = 1024 * 1024 * 100  # 100 MiB`, whatever the size
update_dataset_chunk_size == Bytes(100, 0)

get_chunk_size(size) ==
    IF BGe(size, Threshold100GB) THEN ChunkMedium
    ELSE IF BGe(size, Threshold1TB) THEN ChunkLarge
    ELSE ChunkSmall

----------------------------------------------------------------------------
(* models/dataset.py: validate_name, validate_description, Dataset *)

\* the character classes of the regex "^[^a-zA-Z]{1}|[^a-zA-Z0-9-]"; a string is
\* a sequence of one-character strings
Letters == {"a", "b", "c", "d", "Z"}
Digits == {"0", "2", "9"}
Hyphen == {"-"}
Others == {"_", " "}
Chars == Letters \cup Digits \cup Hyphen \cup Others

NameMaxLength == 15
NameMinLength == 3
DescriptionMaxLength == 50
DescriptionMinLength == 5

\* re.findall(regex, name) is non-empty: the first character is not a letter, or
\* some character is none of letter, digit, hyphen
NameRegexMatches_anywhere(name) ==
    \E i \in 1..Len(name) : name[i] \notin (Letters \cup Digits \cup Hyphen)
NameRegexMatches(name) ==
    \/ (Len(name) >= 1 /\ name[1] \notin Letters)
    \/ \E i \in 1..Len(name) : name[i] \notin (Letters \cup Digits \cup Hyphen)

validate_name(name) ==
    IF NameRegexMatches(name) THEN "NameCharsValidationError"
    ELSE IF Len(name) > NameMaxLength \/ Len(name) < NameMinLength
         THEN "NameLengthValidationError"
    ELSE "ok"

validate_description_exclusive(description) ==
    IF Len(description) >= DescriptionMaxLength \/ Len(description) <= DescriptionMinLength
    THEN "DescriptionLengthValidationError"
    ELSE "ok"
validate_description(description) ==
    IF Len(description) > DescriptionMaxLength \/ Len(description) < DescriptionMinLength
    THEN "DescriptionLengthValidationError"
    ELSE "ok"

\* what Dataset(...) raises: the exception and the errors it carries
Raised(raised, errors) == [raised |-> raised, errors |-> errors]

\* the errors of the fields that fail, in field order
FieldErrors(name, description) ==
    (IF validate_name(name) # "ok" THEN <<validate_name(name)>> ELSE <<>>)
        \o (IF validate_description(description) # "ok"
            THEN <<validate_description(description)>> ELSE <<>>)

\* both fields pass their validators
DatasetValid(name, description) == FieldErrors(name, description) = <<>>

\* Dataset(uid=..., id=..., name=..., description=...): what the construction can
\* raise. The error classes are imported from ..errors; if they derive from
\* ValueError, pydantic runs the validator of every field and raises one
\* ValidationError listing the errors of the fields that failed; if they do not,
\* the error of the first validator that fails is raised itself and no later
\* validator runs. Nothing is raised when both fields pass.
DatasetError(name, description) ==
    IF DatasetValid(name, description) THEN {Raised("ok", <<>>)}
    ELSE {Raised("ValidationError", FieldErrors(name, description)),
          Raised(FieldErrors(name, description)[1],
                 <<FieldErrors(name, description)[1]>>)}

Dataset(uid, id, name, description) ==
    [uid |-> uid, id |-> id, name |-> name, description |-> description,
     tags |-> <<>>, likes |-> 0, downloads |-> 0]

----------------------------------------------------------------------------
(* The persistent store and the object storage the use cases call *)

None == "None"
Uids == {"u1", "u2"}
IdPool == <<"id1", "id2", "id3", "id4", "id5", "id6">>
AllIds == {IdPool[i] : i \in 1..Len(IdPool)}

tiers ==
    [free |-> [limits |-> [datasets |-> [upload |-> FreeUpload]]],
     dev  |-> [limits |-> [datasets |-> [upload |-> DevUpload]]]]

\* db_repo.find_in_time_range('usage', uid, 'dataset_ingested', 'type'): the records
\* of the uid with that type inside the quota window; a behaviour of the model
\* lies within one window
RECURSIVE find_in_time_range(_, _, _)
find_in_time_range(coll, uid, type) ==
    IF coll = <<>> THEN <<>>
    ELSE LET rest == find_in_time_range(Tail(coll), uid, type)
         IN  IF Head(coll).uid = uid /\ Head(coll).type = type
             THEN <<Head(coll)>> \o rest ELSE rest

\* db_repo.find_one_by_name('datasets', name): the documents with that name, {} for None
find_one_by_name(coll, name) == {d \in coll : d.name = name}

\* db_repo.persist('datasets', doc, id): upsert of the document under its id
persist(coll, doc, id) == {d \in coll : d.id # id} \cup {doc}

\* db_repo.generate_id(): a fresh id
generate_id(n) == IdPool[n]

\* db_repo.increase_counter('users', 'uid', uid, 'dataset_count')
increase_counter(coll, uid) ==
    [coll EXCEPT ![uid].dataset_count = @ + 1]

\* Usage.DatasetIngested(uid=uid, payload={'dataset': id})
DatasetIngested(uid, id) ==
    [uid |-> uid, type |-> "dataset_ingested", payload |-> [dataset |-> id]]

\* os_repo.persist_file_chunk(chunk, id, size) and os_repo.persist_file(file, id):
\* one more write under the id.  A write is the bytes written, named by the parts
\* of the client's file that they are, and the size passed with them; the store
\* counts the times each write was made under each id.
Write(bytes, size) == [parts |-> bytes, size |-> size]

persist_file_chunk(store, chunk, id, size) ==
    [store EXCEPT ![id] =
        [w \in DOMAIN @ \cup {Write(chunk, size)} |->
            IF w = Write(chunk, size)
            THEN (IF w \in DOMAIN @ THEN @[w] ELSE 0) + 1
            ELSE @[w]]]

persist_file(store, file, id) ==
    persist_file_chunk(store, file, id, Cardinality(file))

\* the parts of the client's file whose bytes are stored under an id
Received(id) == UNION {w.parts : w \in DOMAIN storage[id]}

----------------------------------------------------------------------------
(* Requests and responses *)

NameAbc == <<"a", "b", "c">>
Name2ab == <<"2", "a", "b">>
DescrOk == <<"a", "b", "c", "d", "Z">>
DescrShort == <<"a", "b", "c", "d">>
\* the name and description of a request: valid ones, and ones the Dataset
\* validators refuse
ReqMeta == {<<NameAbc, DescrOk>>, <<Name2ab, DescrOk>>}
\* the bytes of one chunk request: part k of the file
ReqChunks == {{k} : k \in 1..FileParts}
WholeFile == 1..FileParts
GivenIds == {IdPool[i] : i \in 1..(nextId - 1)}

Response(err, cap, id, dataset) ==
    [err |-> err, cap |-> cap, id |-> id, dataset |-> dataset, fields |-> <<>>]
\* the answer to a request whose Dataset(...) raised
ValidationFailed(out) ==
    [Response(out.raised, 0, None, {}) EXCEPT !.fields = out.errors]
Request(kind, uid, id) == [kind |-> kind, uid |-> uid, id |-> id]
NoRequest == Request("none", None, None)

UploadCap(uid) == tiers[users[uid].tier].limits.datasets.upload

----------------------------------------------------------------------------
(* IngestDatasetChunk.__call__ *)

\* `if inputs.id is None:` guards the quota check, the name check and generate_id
IsNewSession(id) == id = None

\* `len(usage) + 1 >= limits.datasets.upload`
QuotaExceeded_strict(count, cap) == count + 1 > cap
QuotaExceeded(count, cap) == count + 1 >= cap

\* the message of TierLimitError carries limits.datasets.upload
TierLimitError_count(count, cap) == Response("TierLimitError", count, None, {})
TierLimitError(count, cap) == Response("TierLimitError", cap, None, {})

\* the part of both use cases after the Dataset is to be saved: construct the Dataset
\* (which validates it), persist it, count it, report the usage
SaveDataset(req, uid, id, name, description) ==
    IF ~DatasetValid(name, description)
    THEN /\ \E out \in DatasetError(name, description) :
                last' = [req |-> req, res |-> ValidationFailed(out)]
         /\ UNCHANGED <<datasets, users, usage>>
    ELSE /\ datasets' = persist(datasets, Dataset(uid, id, name, description), id)
         /\ users' = increase_counter(users, uid)
         /\ usage' = Append(usage, DatasetIngested(uid, id))
         /\ last' = [req |-> req,
                     res |-> Response("ok", 0, None,
                                      {Dataset(uid, id, name, description)})]

\* the handler with the id generated and the chunk stored before the checks
IngestDatasetChunk_store_first(name, description, chunk, uid, id, is_last, size) ==
    LET count == Len(find_in_time_range(usage, uid, "dataset_ingested"))
        cap == UploadCap(uid)
        req == Request("chunk", uid, id)
        theId == IF IsNewSession(id) THEN generate_id(nextId) ELSE id
    IN  /\ nreq < MaxReq
        /\ nreq' = nreq + 1
        /\ UNCHANGED pending
        /\ IsNewSession(id) => nextId <= MaxIds
        /\ nextId' = IF IsNewSession(id) THEN nextId + 1 ELSE nextId
        /\ storage' = persist_file_chunk(storage, chunk, theId, size)
        /\ IF IsNewSession(id) /\ QuotaExceeded(count, cap)
           THEN /\ last' = [req |-> req, res |-> TierLimitError(count, cap)]
                /\ UNCHANGED <<users, usage, datasets>>
           ELSE IF IsNewSession(id) /\ find_one_by_name(datasets, name) # {}
           THEN /\ last' = [req |-> req,
                            res |-> Response("DatasetAlreadyExistsError", 0, None, {})]
                /\ UNCHANGED <<users, usage, datasets>>
           ELSE IF is_last
           THEN SaveDataset(req, uid, theId, name, description)
           ELSE /\ last' = [req |-> req, res |-> Response("ok", 0, theId, {})]
                /\ UNCHANGED <<datasets, users, usage>>

IngestDatasetChunk(name, description, chunk, uid, id, is_last, size) ==
    LET count == Len(find_in_time_range(usage, uid, "dataset_ingested"))
        cap == UploadCap(uid)
        req == Request("chunk", uid, id)
        theId == IF IsNewSession(id) THEN generate_id(nextId) ELSE id
    IN  /\ nreq < MaxReq
        /\ nreq' = nreq + 1
        /\ UNCHANGED pending
        /\ IF IsNewSession(id) /\ QuotaExceeded(count, cap)
           THEN /\ last' = [req |-> req, res |-> TierLimitError(count, cap)]
                /\ UNCHANGED <<users, usage, datasets, storage, nextId>>
           ELSE IF IsNewSession(id) /\ find_one_by_name(datasets, name) # {}
           THEN /\ last' = [req |-> req,
                            res |-> Response("DatasetAlreadyExistsError", 0, None, {})]
                /\ UNCHANGED <<users, usage, datasets, storage, nextId>>
           ELSE /\ IsNewSession(id) => nextId <= MaxIds
                /\ nextId' = IF IsNewSession(id) THEN nextId + 1 ELSE nextId
                /\ storage' = persist_file_chunk(storage, chunk, theId, size)
                /\ IF is_last
                   THEN SaveDataset(req, uid, theId, name, description)
                   ELSE /\ last' = [req |-> req, res |-> Response("ok", 0, theId, {})]
                        /\ UNCHANGED <<datasets, users, usage>>

----------------------------------------------------------------------------
(* IngestDataset.__call__, a coroutine: it runs to `await calculate_checksum`, *)
(* where other requests may be served, and is resumed later                   *)

IngestDataset_start(name, description, file, uid) ==
    LET count == Len(find_in_time_range(usage, uid, "dataset_ingested"))
        cap == UploadCap(uid)
        req == Request("whole", uid, None)
        id == generate_id(nextId)
    IN  /\ nreq < MaxReq
        /\ nreq' = nreq + 1
        /\ UNCHANGED <<users, usage, datasets>>
        /\ IF QuotaExceeded(count, cap)
           THEN /\ last' = [req |-> req, res |-> TierLimitError(count, cap)]
                /\ UNCHANGED <<storage, nextId, pending>>
           ELSE IF find_one_by_name(datasets, name) # {}
           THEN /\ last' = [req |-> req,
                            res |-> Response("DatasetAlreadyExistsError", 0, None, {})]
                /\ UNCHANGED <<storage, nextId, pending>>
           ELSE /\ nextId <= MaxIds
                /\ nextId' = nextId + 1
                /\ storage' = persist_file(storage, file, id)
                /\ pending' = pending \cup
                      {[uid |-> uid, id |-> id, name |-> name,
                        description |-> description, file |-> file]}
                /\ last' = [req |-> req, res |-> Response("awaiting", 0, id, {})]

IngestDataset_resume(p) ==
    /\ p \in pending
    /\ pending' = pending \ {p}
    /\ SaveDataset(Request("whole", p.uid, None), p.uid, p.id, p.name,
                   p.description)
    /\ UNCHANGED <<storage, nextId, nreq>>

----------------------------------------------------------------------------
(* The server *)

InitServer ==
    /\ users = [u \in Uids |->
                  [tier |-> IF u = "u1" THEN "free" ELSE "dev", dataset_count |-> 0]]
    /\ usage = <<>>
    /\ datasets = {}
    /\ storage = [i \in AllIds |-> [w \in {} |-> 0]]
    /\ nextId = 1
    /\ pending = {}
    /\ last = [req |-> NoRequest, res |-> Response("none", 0, None, {})]
    /\ nreq = 0

InitPlanIdle ==
    /\ content_size = Bytes(0, 0)
    /\ chunk_size = NoBytes

InitClientIdle ==
    /\ c_pc = "idle"
    /\ c_size = Bytes(0, 0)
    /\ c_parts = <<>>
    /\ c_threads = 0
    /\ c_tasks = <<>>
    /\ c_futures = <<>>
    /\ c_result = "pending"

ChunkRequest ==
    /\ nreq < MaxReq
    /\ \E meta \in ReqMeta, chunk \in ReqChunks,
       uid \in Uids, id \in {None} \cup GivenIds, is_last \in BOOLEAN :
        /\ IngestDatasetChunk(meta[1], meta[2], chunk, uid, id, is_last,
                              Cardinality(chunk))
        /\ UNCHANGED <<planVars, clientVars, finVars, validatorVars, versionVars, seqVars>>

WholeFileRequest ==
    /\ nreq < MaxReq
    /\ \E meta \in ReqMeta, uid \in Uids :
        /\ IngestDataset_start(meta[1], meta[2], WholeFile, uid)
        /\ UNCHANGED <<planVars, clientVars, finVars, validatorVars, versionVars, seqVars>>

WholeFileResume ==
    \E p \in pending :
        /\ IngestDataset_resume(p)
        /\ UNCHANGED <<planVars, clientVars, finVars, validatorVars, versionVars, seqVars>>

----------------------------------------------------------------------------
(* The chunk planner on its own: get_chunk_size applied to one content size *)

\* the sizes where the plan changes or a storage limit is met, in MiB:
\* 0, 10000 parts of 10 MiB, 100 GB, 10000 parts of 100 MiB, 1 TB, 5 TB
PlanPoints == {0, 10000 * 10, 1024 * 100, 10000 * 100, 1024 * 1000, 1024 * 1024 * 5}
PlanSizes ==
    {Bytes(m, r) : m \in {t + d : t \in PlanPoints, d \in -PlanSpread..PlanSpread}
                        \cap Nat,
                   r \in {0, 1, MiB - 1}}

InitPlan ==
    /\ content_size \in PlanSizes
    /\ chunk_size = NoBytes

CallGetChunkSize ==
    /\ chunk_size = NoBytes
    /\ chunk_size' = get_chunk_size(content_size)
    /\ UNCHANGED <<content_size, serverVars, clientVars, finVars, validatorVars, versionVars, seqVars>>

----------------------------------------------------------------------------
(* APIRepo.ingest_large_dataset_parallel *)

\* Python values whose type matters to `in`: an int and the str of its decimal digits
PyInt(n) == [type |-> "int", val |-> n]
PyStr(n) == [type |-> "str", val |-> n]
\* str(x)
str(x) == PyStr(x.val)
\* x in xs, with Python's ==: an int never equals a str
In(x, xs) == \E i \in 1..Len(xs) : xs[i] = x

\* `max_workers = threads if threads > 0 else multiprocessing.cpu_count()`
max_workers_cpu(threads) == CpuCount
max_workers(threads) == IF threads > 0 THEN threads ELSE CpuCount

\* `part = str(offset // chunk_size + 1)`
PartOfOffset_from_zero(offset, chunk) == str(PyInt(BFloorDiv(offset, chunk)))
PartOfOffset(offset, chunk) == str(PyInt(BFloorDiv(offset, chunk) + 1))

\* the planning loop `while offset < content_size:`, from `offset` with `tasks` built so far
RECURSIVE PlanTasks(_, _, _, _, _)
PlanTasks(offset, tasks, size, chunk, parts) ==
    IF BLt(offset, size)
    THEN LET chunk_end == BMin(BAdd(offset, chunk), size)
             part == PartOfOffset(offset, chunk)
         IN  PlanTasks(chunk_end,
                       IF ~In(part, parts)
                       THEN Append(tasks, [start |-> offset, end |-> chunk_end,
                                           part |-> part])
                       ELSE tasks,
                       size, chunk, parts)
    ELSE tasks

\* the call up to `futures = []`: the executor is made and the tasks are planned;
\* without tasks the submit loop is passed at once
ParallelStart(size, parts, threads) ==
    /\ c_pc = "idle"
    /\ c_size' = size
    /\ c_parts' = parts
    /\ c_threads' = threads
    /\ c_tasks' = PlanTasks(Bytes(0, 0), <<>>, size, get_chunk_size(size), parts)
    /\ c_pc' = IF c_tasks' = <<>> THEN "running" ELSE "submitting"
    /\ c_futures' = <<>>
    /\ c_result' = "pending"

\* one turn of `for task in tasks:`: executor.submit hands the next task to the
\* executor, whose workers run while the loop goes on; after the last task the
\* call waits for the futures
Submit ==
    /\ c_pc = "submitting"
    /\ c_futures' = Append(c_futures, "queued")
    /\ c_pc' = IF Len(c_futures') = Len(c_tasks) THEN "running" ELSE "submitting"
    /\ UNCHANGED <<c_size, c_parts, c_threads, c_tasks, c_result>>

Running == {i \in 1..Len(c_futures) : c_futures[i] = "running"}
Queued == {i \in 1..Len(c_futures) : c_futures[i] = "queued"}

\* a free worker thread of the executor takes the oldest queued task; the executor
\* is never shut down, so its threads go on after the call has raised
WorkerTake(i) ==
    /\ c_pc \in {"submitting", "running", "raised"}
    /\ i \in Queued
    /\ \A j \in Queued : i <= j
    /\ Cardinality(Running) < max_workers(c_threads)
    /\ c_futures' = [c_futures EXCEPT ![i] = "running"]
    /\ UNCHANGED <<c_pc, c_size, c_parts, c_threads, c_tasks, c_result>>

\* upload_chunk ends: "ok" is a response of status 200, "failed" a response of
\* another status (printed, and returned like the first), "raised" an exception
\* of open or requests.post
UploadChunkOutcomes == {"ok", "failed", "raised"}
Done == {"ok", "failed"}

UploadChunkEnd(i, outcome) ==
    /\ c_pc \in {"submitting", "running", "raised"}
    /\ i \in Running
    /\ c_futures' = [c_futures EXCEPT ![i] = outcome]
    /\ UNCHANGED <<c_pc, c_size, c_parts, c_threads, c_tasks, c_result>>

\* `for future in futures: future.result()` has passed every future: each one
\* returned a response, which is dropped; the call ends without a return statement
ParallelReturn ==
    /\ c_pc = "running"
    /\ \A i \in 1..Len(c_futures) : c_futures[i] \in Done
    /\ c_pc' = "returned"
    /\ c_result' = None
    /\ UNCHANGED <<c_size, c_parts, c_threads, c_tasks, c_futures>>

\* `future.result()` re-raises the exception of the first future, in list order,
\* that ended with one
ParallelRaise ==
    /\ c_pc = "running"
    /\ \E i \in 1..Len(c_futures) :
          /\ c_futures[i] = "raised"
          /\ \A j \in 1..(i - 1) : c_futures[j] \in Done
    /\ c_pc' = "raised"
    /\ c_result' = "Exception"
    /\ UNCHANGED <<c_size, c_parts, c_threads, c_tasks, c_futures>>

\* APIRepo.complete_upload, which the caller of the uploader sends once the
\* uploader has returned to it
complete_upload ==
    /\ c_pc = "returned"
    /\ c_pc' = "completed"
    /\ UNCHANGED <<c_size, c_parts, c_threads, c_tasks, c_futures, c_result>>

\* the inputs of the client: file sizes of up to MaxFileMiB MiB, whole or with one
\* byte more, and the lists a JSON response can hold for "parts"
ClientSizes == {Bytes(m, r) : m \in 0..MaxFileMiB, r \in {0, 1}}
ClientPartNumbers == 1..((MaxFileMiB \div 10) + 1)
RECURSIVE SeqsUpTo(_, _)
SeqsUpTo(S, n) ==
    IF n = 0 THEN {<<>>}
    ELSE SeqsUpTo(S, n - 1) \cup
         {Append(q, x) : q \in {q \in SeqsUpTo(S, n - 1) : Len(q) = n - 1}, x \in S}
ClientPartLists ==
    SeqsUpTo({PyInt(k) : k \in ClientPartNumbers}, MaxPartsLen) \cup
    SeqsUpTo({PyStr(k) : k \in ClientPartNumbers}, MaxPartsLen)

ClientStart ==
    /\ c_pc = "idle"
    /\ \E size \in ClientSizes, parts \in ClientPartLists, threads \in 0..MaxThreads :
        /\ ParallelStart(size, parts, threads)
        /\ UNCHANGED <<planVars, serverVars, finVars, validatorVars, versionVars, seqVars>>

ClientSubmit ==
    /\ Submit
    /\ UNCHANGED <<planVars, serverVars, finVars, validatorVars, versionVars, seqVars>>

ClientWorkerTake ==
    \E i \in 1..Len(c_futures) :
        /\ WorkerTake(i)
        /\ UNCHANGED <<planVars, serverVars, finVars, validatorVars, versionVars, seqVars>>

ClientUploadChunkEnd ==
    \E i \in 1..Len(c_futures), outcome \in UploadChunkOutcomes :
        /\ UploadChunkEnd(i, outcome)
        /\ UNCHANGED <<planVars, serverVars, finVars, validatorVars, versionVars, seqVars>>

ClientReturn ==
    /\ ParallelReturn
    /\ UNCHANGED <<planVars, serverVars, finVars, validatorVars, versionVars, seqVars>>

ClientRaise ==
    /\ ParallelRaise
    /\ UNCHANGED <<planVars, serverVars, finVars, validatorVars, versionVars, seqVars>>

ClientComplete ==
    /\ complete_upload
    /\ UNCHANGED <<planVars, serverVars, finVars, validatorVars, versionVars, seqVars>>

----------------------------------------------------------------------------
(* IngestDatasetChunk.__call__ on a part that was damaged on the way *)

\* hashlib.md5(chunk).hexdigest(), APIRepo.upload_chunk: a digest that tells the
\* chunks of the model apart
md5(chunk) == [md5 |-> chunk]

\* the bytes of a chunk with one byte changed between the client's read and the
\* server: part k of the file damaged is written -k
Corrupt(chunk) == {-k : k \in chunk}

\* the bytes are those of parts of the client's file, that is, their digest is
\* the one upload_chunk computed from the file and put in the "Checksum" header
Intact(bytes) == \A b \in bytes : b \in 1..FileParts

\* upload_chunk reads a part, computes its checksum and posts both; the bytes that
\* arrive are the part or the damaged part.  IngestDatasetChunk.Inputs has no
\* field for the checksum, so the handler is called without it.
ChecksumRequest ==
    /\ nreq < MaxReq
    /\ \E part \in ReqChunks, damaged \in BOOLEAN,
          id \in {None} \cup GivenIds, is_last \in BOOLEAN :
        LET checksum == md5(part)
            sent == IF damaged THEN Corrupt(part) ELSE part
        IN  /\ IngestDatasetChunk(NameAbc, DescrOk, sent, "u2", id, is_last,
                                  Cardinality(sent))
            /\ UNCHANGED <<planVars, clientVars, finVars, validatorVars, versionVars, seqVars>>

----------------------------------------------------------------------------
(* IngestDatasetChunk.__call__ on a final request, one statement of lines 44-53 *)
(* at a time, so that the request can end between two of them                  *)

\* no final request under way
NoFinal == [pc |-> "idle", uid |-> None, id |-> None, name |-> <<>>, description |-> <<>>]

InitFinIdle == fin = NoFinal

\* lines 27-46 of a request with is_last that passes the checks: the chunk is
\* stored and the Dataset is constructed
FinalizeBegin(name, description, chunk, uid, id, size) ==
    LET count == Len(find_in_time_range(usage, uid, "dataset_ingested"))
        cap == UploadCap(uid)
        theId == IF IsNewSession(id) THEN generate_id(nextId) ELSE id
    IN  /\ fin = NoFinal
        /\ nreq < MaxReq
        /\ nreq' = nreq + 1
        /\ ~(IsNewSession(id) /\ QuotaExceeded(count, cap))
        /\ ~(IsNewSession(id) /\ find_one_by_name(datasets, name) # {})
        /\ IsNewSession(id) => nextId <= MaxIds
        /\ nextId' = IF IsNewSession(id) THEN nextId + 1 ELSE nextId
        /\ storage' = persist_file_chunk(storage, chunk, theId, size)
        /\ DatasetValid(name, description)
        /\ fin' = [pc |-> "persist_dataset", uid |-> uid, id |-> theId,
                   name |-> name, description |-> description]
        /\ last' = [req |-> Request("chunk", uid, id),
                    res |-> Response("running", 0, None, {})]
        /\ UNCHANGED <<users, usage, datasets, pending>>

\* line 47: self.db_repo.persist('datasets', dataset.dict(), id)
FinalizePersistDataset ==
    /\ fin # NoFinal
    /\ fin.pc = "persist_dataset"
    /\ datasets' = persist(datasets, Dataset(fin.uid, fin.id, fin.name,
                                             fin.description), fin.id)
    /\ fin' = [fin EXCEPT !.pc = "increase_counter"]
    /\ UNCHANGED <<users, usage, storage, nextId, pending, last, nreq>>

\* line 49: self.db_repo.increase_counter('users', 'uid', inputs.uid, 'dataset_count')
FinalizeIncreaseCounter ==
    /\ fin # NoFinal
    /\ fin.pc = "increase_counter"
    /\ users' = increase_counter(users, fin.uid)
    /\ fin' = [fin EXCEPT !.pc = "persist_usage"]
    /\ UNCHANGED <<datasets, usage, storage, nextId, pending, last, nreq>>

\* lines 51-53: the usage record is persisted and the Dataset returned
FinalizePersistUsage ==
    /\ fin # NoFinal
    /\ fin.pc = "persist_usage"
    /\ usage' = Append(usage, DatasetIngested(fin.uid, fin.id))
    /\ fin' = NoFinal
    /\ last' = [req |-> last.req,
                res |-> Response("ok", 0, None,
                                 {Dataset(fin.uid, fin.id, fin.name, fin.description)})]
    /\ UNCHANGED <<datasets, users, storage, nextId, pending, nreq>>

\* the request ends where it is: the server process dies, or the store call it is
\* about to make raises; the handler has no try, no transaction and no undo
FinalizeCrash ==
    /\ fin # NoFinal
    /\ fin' = NoFinal
    /\ last' = [req |-> last.req, res |-> Response("crashed", 0, None, {})]
    /\ UNCHANGED <<datasets, users, usage, storage, nextId, pending, nreq>>

\* a request that is not the final one, handled while no final request is under way
StepChunkRequest ==
    /\ nreq < MaxReq
    /\ fin = NoFinal
    /\ \E chunk \in ReqChunks, uid \in Uids, id \in {None} \cup GivenIds :
        /\ IngestDatasetChunk(NameAbc, DescrOk, chunk, uid, id, FALSE,
                              Cardinality(chunk))
        /\ UNCHANGED <<planVars, clientVars, finVars, validatorVars, versionVars, seqVars>>

StepFinalRequest ==
    /\ nreq < MaxReq
    /\ fin = NoFinal
    /\ \E chunk \in ReqChunks, uid \in Uids, id \in {None} \cup GivenIds :
        /\ FinalizeBegin(NameAbc, DescrOk, chunk, uid, id, Cardinality(chunk))
        /\ UNCHANGED <<planVars, clientVars, validatorVars, versionVars, seqVars>>

StepPersistDataset ==
    FinalizePersistDataset /\ UNCHANGED <<planVars, clientVars, validatorVars, versionVars, seqVars>>
StepIncreaseCounter ==
    FinalizeIncreaseCounter /\ UNCHANGED <<planVars, clientVars, validatorVars, versionVars, seqVars>>
StepPersistUsage ==
    FinalizePersistUsage /\ UNCHANGED <<planVars, clientVars, validatorVars, versionVars, seqVars>>
StepCrash ==
    FinalizeCrash /\ UNCHANGED <<planVars, clientVars, validatorVars, versionVars, seqVars>>

----------------------------------------------------------------------------
(* models/dataset.py on its own: one Dataset constructed from a name and a *)
(* description                                                             *)

\* no Dataset constructed yet
NoOut ==
    [name |-> "none", description |-> "none", error |-> Raised("none", <<>>),
     dataset |-> {}]

InitValidatorIdle ==
    /\ v_name = <<>>
    /\ v_description = <<>>
    /\ v_out = NoOut

RECURSIVE Repeat(_, _)
Repeat(c, n) == IF n = 0 THEN <<>> ELSE <<c>> \o Repeat(c, n - 1)

NameAb == <<"a", "b">>

\* the lengths around the least and the greatest length a validator allows
LengthsAround(min_length, max_length) ==
    {0} \cup ({min_length + d : d \in -LenSpread..LenSpread} \cap Nat)
        \cup {max_length + d : d \in -LenSpread..LenSpread}

\* names: every start of up to NamePrefixLen characters (a letter, a digit, a
\* hyphen, a symbol), filled up to lengths around 3 and 15 with a letter, a hyphen
\* or a blank
NamePrefixChars == {"a", "2", "-", "_"}
NameFillChars == {"b", "-", " "}
Names ==
    {NameAb, Name2ab, NameAbc} \cup
    {t[1] \o Repeat(t[2], t[3] - Len(t[1])) :
        t \in {t \in SeqsUpTo(NamePrefixChars, NamePrefixLen)
                       \X NameFillChars
                       \X LengthsAround(NameMinLength, NameMaxLength) :
                  t[3] >= Len(t[1])}}

\* descriptions: letters or blanks, of lengths around 5 and 50
Descriptions ==
    {Repeat(c, n) : c \in {"a", " "},
                    n \in LengthsAround(DescriptionMinLength, DescriptionMaxLength)}

InitValidator ==
    /\ v_name \in Names
    /\ v_description \in Descriptions
    /\ v_out = NoOut

\* validate_name(v_name) and validate_description(v_description), each called on
\* its own, and Dataset(uid=..., id=..., name=v_name, description=v_description)
ConstructDataset ==
    /\ v_out = NoOut
    /\ \E out \in DatasetError(v_name, v_description) :
        v_out' = [name |-> validate_name(v_name),
                  description |-> validate_description(v_description),
                  error |-> out,
                  dataset |-> IF DatasetValid(v_name, v_description)
                              THEN {Dataset("u1", IdPool[1], v_name, v_description)}
                              ELSE {}]
    /\ UNCHANGED <<v_name, v_description, planVars, serverVars, clientVars, finVars,
                   versionVars, seqVars>>

----------------------------------------------------------------------------
(* MongoDatasetsRepo, migrate_db and FilesAPIRepo: the versions and the files of
   one dataset *)

\* the greatest version number a caller gives, the most versions pushed, the most
\* versions in a document a caller writes, and how far a counter is moved
MaxVersionId == 3
MaxVersions == 3
MaxDocVersions == 1
MaxCount == 2
\* the greatest version a file is ingested in, and the most Files in a document
MaxFileVersion == 2
MaxDocFiles == 2

\* Version(version_id=..., size=...)
Version(version_id, size) == [version_id |-> version_id, size |-> size]

\* File(name=..., size=..., checksum=..., version=..., versions=[...])
File(name, size, checksum, version, versions) ==
    [name |-> name, size |-> size, checksum |-> checksum, version |-> version,
     versions |-> versions]

\* the size of a version, in MiB
VersionSizes == {3}
Versions == {Version(k, size) : k \in 1..MaxVersionId, size \in VersionSizes}

\* create_dataset_version: `$push` of the given version to `versions`, whatever
\* its version_id
create_dataset_version(versions, version) == Append(versions, version)

\* update_dataset and persist_dataset: the document is written as the caller
\* gives it, its `versions` included
update_dataset(versions, dataset) == dataset.versions
persist_dataset(versions, dataset) == dataset.versions

\* increase_user_dataset_count and decrease_user_dataset_count
increase_user_dataset_count(coll, uid) == increase_counter(coll, uid)
decrease_user_dataset_count(coll, uid) ==
    [coll EXCEPT ![uid].dataset_count = @ - 1]

\* persist_files and delete_files: the 'files' document of the dataset is written
\* as given, or removed
persist_files(files) == files
delete_files == {}

\* the form fields of a file request, and the body sent with `data=None`
FormData(checksum, version, filename, fileversion, parent) ==
    [checksum |-> checksum, version |-> version, filename |-> filename,
     fileversion |-> fileversion, parent |-> parent]
NoData == FormData(None, 0, None, 0, None)

\* a file request as sent: the call, the file attached and the form fields
FileRequest(kind, file, data) == [kind |-> kind, file |-> file, data |-> data]
NoFileRequest == FileRequest("none", None, NoData)

InitVersionIdle ==
    /\ d_migrate = "none"
    /\ d_versions = <<>>
    /\ d_files = {}
    /\ d_last = NoFileRequest

\* how migrate_db ends on a document: a KeyError of dataset["size"],
\* dataset["quality"] or dataset["files"]; the ValidationError of
\* Dataset(**dataset); or, with the Dataset made, update_one handed the model
\* object under `$set`, which raises in the driver if it cannot encode it and
\* writes the fields of Dataset if it can
MigrateOutcomes == {"KeyError", "ValidationError", "InvalidDocument", "Done"}

\* migrate_db on a dataset document: the Files built from dataset["files"] and
\* the list [Version(version_id=1, size=size)] put under 'version' do not reach
\* the store: `del dataset["files"]` removes the first, Dataset(**dataset) has no
\* field for the second, and no run writes `versions` or the 'files' collection
Migrate ==
    /\ \E outcome \in MigrateOutcomes : d_migrate' = outcome
    /\ UNCHANGED <<d_versions, d_files, d_last, planVars, serverVars, clientVars,
                   finVars, validatorVars, seqVars>>

\* MongoDatasetsRepo.create_dataset_version(dataset, version), with any version
CreateDatasetVersion ==
    /\ Len(d_versions) < MaxVersions
    /\ \E version \in Versions :
           d_versions' = create_dataset_version(d_versions, version)
    /\ UNCHANGED <<d_migrate, d_files, d_last, planVars, serverVars, clientVars,
                   finVars, validatorVars, seqVars>>

\* the documents a caller writes: any versions, up to MaxDocVersions of them
DatasetDocuments == [versions : SeqsUpTo(Versions, MaxDocVersions)]

\* MongoDatasetsRepo.update_dataset(dataset_id, dataset)
UpdateDataset ==
    /\ \E dataset \in DatasetDocuments :
           d_versions' = update_dataset(d_versions, dataset)
    /\ UNCHANGED <<d_migrate, d_files, d_last, planVars, serverVars, clientVars,
                   finVars, validatorVars, seqVars>>

\* MongoDatasetsRepo.persist_dataset(dataset, id)
PersistDataset ==
    /\ \E dataset \in DatasetDocuments :
           d_versions' = persist_dataset(d_versions, dataset)
    /\ UNCHANGED <<d_migrate, d_files, d_last, planVars, serverVars, clientVars,
                   finVars, validatorVars, seqVars>>

\* MongoDatasetsRepo.increase_user_dataset_count(uid)
IncreaseUserDatasetCount ==
    /\ \E uid \in Uids :
        /\ users[uid].dataset_count < MaxCount
        /\ users' = increase_user_dataset_count(users, uid)
    /\ UNCHANGED <<usage, datasets, storage, nextId, pending, last, nreq, planVars,
                   clientVars, finVars, validatorVars, versionVars, seqVars>>

\* MongoDatasetsRepo.decrease_user_dataset_count(uid)
DecreaseUserDatasetCount ==
    /\ \E uid \in Uids :
        /\ users[uid].dataset_count > -MaxCount
        /\ users' = decrease_user_dataset_count(users, uid)
    /\ UNCHANGED <<usage, datasets, storage, nextId, pending, last, nreq, planVars,
                   clientVars, finVars, validatorVars, versionVars, seqVars>>

\* FilesAPIRepo.ingest_file: the file is always sent, the form fields only
\* `if checksum`
ingest_file(file, version, parent, checksum) ==
    FileRequest("ingest_file", file,
                IF checksum # None THEN FormData(checksum, version, None, 0, parent)
                ELSE NoData)

\* FilesAPIRepo.ingest_existing_file: no file is sent, the form fields only
\* `if checksum`
ingest_existing_file(filename, version, file_version, checksum) ==
    FileRequest("ingest_existing_file", None,
                IF checksum # None
                THEN FormData(checksum, version, filename, file_version, None)
                ELSE NoData)

FileNames == {"f1", "f2"}
Checksums == {None, "c1", "c2"}
FileSizes == {1}

\* a client sends a file request; what is stored for it is written by the
\* server through persist_files
IngestFileRequest ==
    /\ \E file \in FileNames, version \in 1..MaxFileVersion, checksum \in Checksums :
           d_last' = ingest_file(file, version, None, checksum)
    /\ UNCHANGED <<d_migrate, d_versions, d_files, planVars, serverVars, clientVars,
                   finVars, validatorVars, seqVars>>

IngestExistingFileRequest ==
    /\ \E filename \in FileNames, version \in 1..MaxFileVersion,
          file_version \in 1..MaxFileVersion, checksum \in Checksums :
           d_last' = ingest_existing_file(filename, version, file_version, checksum)
    /\ UNCHANGED <<d_migrate, d_versions, d_files, planVars, serverVars, clientVars,
                   finVars, validatorVars, seqVars>>

\* the File records a document can hold: any name, size and checksum, in any
\* versions
FileRecords ==
    {File(name, size, checksum, version, versions) :
        name \in FileNames, size \in FileSizes, checksum \in Checksums \ {None},
        version \in 1..MaxFileVersion,
        versions \in (SUBSET (1..MaxFileVersion)) \ {{}}}

\* the 'files' documents written: any Files, up to MaxDocFiles of them
RECURSIVE SetsUpTo(_, _)
SetsUpTo(S, n) ==
    IF n = 0 THEN {{}}
    ELSE SetsUpTo(S, n - 1) \cup {r \cup {x} : r \in SetsUpTo(S, n - 1), x \in S}
FilesDocuments == SetsUpTo(FileRecords, MaxDocFiles)

\* MongoDatasetsRepo.persist_files(files, id)
PersistFiles ==
    /\ \E files \in FilesDocuments : d_files' = persist_files(files)
    /\ UNCHANGED <<d_migrate, d_versions, d_last, planVars, serverVars, clientVars,
                   finVars, validatorVars, seqVars>>

\* MongoDatasetsRepo.delete_files(id)
DeleteFiles ==
    /\ d_files' = delete_files
    /\ UNCHANGED <<d_migrate, d_versions, d_last, planVars, serverVars, clientVars,
                   finVars, validatorVars, seqVars>>

----------------------------------------------------------------------------
(* APIRepo.ingest_large_dataset and APIRepo.update_dataset: the sequential uploads *)

SeqPaths == {"ingest_large_dataset", "update_dataset"}

\* what a call gives its caller: nothing yet, a return value, or an exception
SeqResult(kind, value, error) == [kind |-> kind, value |-> value, error |-> error]
NoSeqResult == SeqResult("none", None, None)

InitSeqIdle ==
    /\ s_pc = "idle"
    /\ s_path = "none"
    /\ s_size = NoBytes
    /\ s_parts = <<>>
    /\ s_index = NoBytes
    /\ s_read = <<>>
    /\ s_sent = <<>>
    /\ s_failed = <<>>
    /\ s_result = NoSeqResult

\* `chunk_size = self.get_chunk_size(content_size)` in ingest_large_dataset,
\* `chunk_size = 1024 * 1024 * 100` in update_dataset
SeqChunkSize(path, size) ==
    IF path = "ingest_large_dataset" THEN get_chunk_size(size)
    ELSE update_dataset_chunk_size

\* `part = index // chunk_size + 1`, an int
SeqPart(index, chunk) == PyInt(BFloorDiv(index, chunk) + 1)

\* after the post of a part: `if response.status_code != 200: raise ...` and
\* `if r.status_code != 200: return None, ...` leave the loop, and so does a post
\* that raises
AfterPost_goes_on(outcome) == "loop"
AfterPost(outcome) == IF outcome = "ok" THEN "loop" ELSE "done"

\* what the call gives when the post of a part was not answered 200
SeqFailure(path, outcome) ==
    IF outcome = "raised" \/ path = "ingest_large_dataset"
    THEN SeqResult("raise", None, "Exception")
    ELSE SeqResult("return", None, "detail")

\* the call up to `index = 0`; update_dataset first retrieves the dataset and asks
\* for the upload id and the parts, and returns the error of either
SeqStart(path, size, parts, pre) ==
    /\ s_pc = "idle"
    /\ s_path' = path
    /\ IF path = "update_dataset" /\ pre # "ok"
       THEN /\ s_pc' = "done"
            /\ s_result' = SeqResult("return", None, pre)
            /\ UNCHANGED <<s_size, s_parts, s_index>>
       ELSE /\ s_pc' = "loop"
            /\ s_size' = size
            /\ s_parts' = parts
            /\ s_index' = Bytes(0, 0)
            /\ UNCHANGED s_result
    /\ UNCHANGED <<s_read, s_sent, s_failed>>

\* one turn of `for chunk in pbar:`: read_in_chunks reads up to chunk_size bytes
\* and ends the loop on an empty read; the chunk is posted if its part is not in
\* `parts`
SeqTurn(outcome) ==
    /\ s_pc = "loop"
    /\ LET chunk == SeqChunkSize(s_path, s_size)
           offset == BMin(BAdd(s_index, chunk), s_size)
           part == SeqPart(s_index, chunk)
       IN  IF s_index = s_size
           THEN /\ IF s_path = "ingest_large_dataset"
                   THEN s_pc' = "done" /\ s_result' = SeqResult("return", None, None)
                   ELSE s_pc' = "complete" /\ UNCHANGED s_result
                /\ UNCHANGED <<s_index, s_read, s_sent, s_failed>>
           ELSE /\ s_index' = offset
                /\ s_read' = Append(s_read, part.val)
                /\ IF ~In(part, s_parts)
                   THEN /\ s_sent' = Append(s_sent, part.val)
                        /\ s_pc' = AfterPost(outcome)
                        /\ IF outcome = "ok"
                           THEN UNCHANGED <<s_failed, s_result>>
                           ELSE /\ s_failed' = Append(s_failed,
                                        [part |-> part.val, outcome |-> outcome])
                                /\ s_result' = SeqFailure(s_path, outcome)
                   ELSE UNCHANGED <<s_pc, s_sent, s_failed, s_result>>
    /\ UNCHANGED <<s_path, s_size, s_parts>>

\* update_dataset after the loop: the post that completes the upload
SeqComplete(outcome) ==
    /\ s_pc = "complete"
    /\ s_pc' = "done"
    /\ s_result' = IF outcome = "ok" THEN SeqResult("return", "json", None)
                   ELSE IF outcome = "failed" THEN SeqResult("return", None, "detail")
                   ELSE SeqResult("raise", None, "Exception")
    /\ UNCHANGED <<s_path, s_size, s_parts, s_index, s_read, s_sent, s_failed>>

\* files of up to three chunks of either call
SeqSizes(path) ==
    IF path = "ingest_large_dataset" THEN ClientSizes
    ELSE {Bytes(10 * m, r) : m \in 0..MaxFileMiB, r \in {0, 1}}

SeqPre == {"ok", "retrieve_error", "get_detail"}

SequentialStart ==
    /\ s_pc = "idle"
    /\ \E path \in SeqPaths, parts \in ClientPartLists, pre \in SeqPre :
         \E size \in SeqSizes(path) : SeqStart(path, size, parts, pre)
    /\ UNCHANGED <<planVars, serverVars, clientVars, finVars, validatorVars,
                   versionVars>>

SequentialTurn ==
    /\ s_pc = "loop"
    /\ \E outcome \in UploadChunkOutcomes : SeqTurn(outcome)
    /\ UNCHANGED <<planVars, serverVars, clientVars, finVars, validatorVars,
                   versionVars>>

SequentialComplete ==
    /\ s_pc = "complete"
    /\ \E outcome \in UploadChunkOutcomes : SeqComplete(outcome)
    /\ UNCHANGED <<planVars, serverVars, clientVars, finVars, validatorVars,
                   versionVars>>

----------------------------------------------------------------------------
(* Specifications *)

\* the server: chunked and whole-file ingestion requests from any user
Init == InitPlanIdle /\ InitServer /\ InitClientIdle /\ InitFinIdle /\ InitValidatorIdle
        /\ InitVersionIdle /\ InitSeqIdle
Next == ChunkRequest \/ WholeFileRequest \/ WholeFileResume
Spec == Init /\ [][Next]_vars

\* the chunk planner alone
PlanInit == InitPlan /\ InitServer /\ InitClientIdle /\ InitFinIdle /\ InitValidatorIdle
        /\ InitVersionIdle /\ InitSeqIdle
PlanNext == CallGetChunkSize
PlanSpec == PlanInit /\ [][PlanNext]_vars

\* one user uploading one file under one name in chunks, losing the session id at
\* any time and asking again without it
ResumeRequest ==
    /\ nreq < MaxReq
    /\ \E chunk \in ReqChunks, id \in {None} \cup GivenIds, is_last \in BOOLEAN :
        /\ IngestDatasetChunk(NameAbc, DescrOk, chunk, "u2", id, is_last,
                              Cardinality(chunk))
        /\ UNCHANGED <<planVars, clientVars, finVars, validatorVars, versionVars, seqVars>>
ResumeNext == ResumeRequest
ResumeSpec == Init /\ [][ResumeNext]_vars

\* user u1 of the free tier uploading one file under one name in chunks, with the
\* session id or asking again without it
AdmissionRequest ==
    /\ nreq < MaxReq
    /\ \E chunk \in ReqChunks, id \in {None} \cup GivenIds, is_last \in BOOLEAN :
        /\ IngestDatasetChunk(NameAbc, DescrOk, chunk, "u1", id, is_last,
                              Cardinality(chunk))
        /\ UNCHANGED <<planVars, clientVars, finVars, validatorVars, versionVars, seqVars>>
AdmissionNext == AdmissionRequest
AdmissionSpec == Init /\ [][AdmissionNext]_vars

\* one call of the parallel uploader
ClientInit ==
    InitPlanIdle /\ InitServer /\ InitClientIdle /\ InitFinIdle /\ InitValidatorIdle
        /\ InitVersionIdle /\ InitSeqIdle
ClientNext ==
    \/ ClientStart \/ ClientSubmit \/ ClientWorkerTake \/ ClientUploadChunkEnd
    \/ ClientReturn \/ ClientRaise \/ ClientComplete
ClientSpec == ClientInit /\ [][ClientNext]_vars

\* one user uploading one file in chunks over a network that may damage a part
ChecksumNext == ChecksumRequest
ChecksumSpec == Init /\ [][ChecksumNext]_vars

\* chunked ingestion with the final request taken one store call at a time
FinalizeNext ==
    \/ StepChunkRequest \/ StepFinalRequest
    \/ StepPersistDataset \/ StepIncreaseCounter \/ StepPersistUsage
    \/ StepCrash
FinalizeSpec == Init /\ [][FinalizeNext]_vars

\* the Dataset validators alone
ValidatorInit ==
    InitPlanIdle /\ InitServer /\ InitClientIdle /\ InitFinIdle /\ InitValidator
        /\ InitVersionIdle /\ InitSeqIdle
ValidatorNext == ConstructDataset
ValidatorSpec == ValidatorInit /\ [][ValidatorNext]_vars

\* the server with the event loop resuming every suspended coroutine; requests
\* come or do not come, and nothing else runs on the server
ServerFairSpec == Init /\ [][Next]_vars /\ WF_vars(WholeFileResume)

\* user u1 opens sessions for the name 'abc'; requests that carry the id of a
\* session come from either user, under either name
NameAbd == <<"a", "b", "d">>

IsolationCreate ==
    /\ nreq < MaxReq
    /\ \E chunk \in ReqChunks, is_last \in BOOLEAN :
        /\ IngestDatasetChunk(NameAbc, DescrOk, chunk, "u1", None, is_last,
                              Cardinality(chunk))
        /\ UNCHANGED <<planVars, clientVars, finVars, validatorVars, versionVars, seqVars>>

IsolationContinue ==
    /\ nreq < MaxReq
    /\ \E name \in {NameAbc, NameAbd}, chunk \in ReqChunks, uid \in Uids,
          id \in GivenIds, is_last \in BOOLEAN :
        /\ IngestDatasetChunk(name, DescrOk, chunk, uid, id, is_last,
                              Cardinality(chunk))
        /\ UNCHANGED <<planVars, clientVars, finVars, validatorVars, versionVars, seqVars>>

IsolationNext == IsolationCreate \/ IsolationContinue
IsolationSpec == Init /\ [][IsolationNext]_vars

\* the writes of MongoDatasetsRepo and of the migration on one dataset document
\* and on the users' counters
VersionNext ==
    \/ Migrate
    \/ CreateDatasetVersion
    \/ UpdateDataset
    \/ PersistDataset
    \/ IncreaseUserDatasetCount
    \/ DecreaseUserDatasetCount
VersionSpec == Init /\ [][VersionNext]_vars

\* file requests of clients and the writes of MongoDatasetsRepo on the files of
\* one dataset
FileNext ==
    \/ IngestFileRequest
    \/ IngestExistingFileRequest
    \/ PersistFiles
    \/ DeleteFiles
FileSpec == Init /\ [][FileNext]_vars

\* one call of a sequential uploader
SequentialNext == SequentialStart \/ SequentialTurn \/ SequentialComplete
SequentialSpec == Init /\ [][SequentialNext]_vars

----------------------------------------------------------------------------
(* Properties *)

\* the object-storage limit on the number of parts the planner is written for
S3MaxParts == 10000

\* the number of 'dataset_ingested' records of a uid in the usage log
IngestedCount(log, uid) ==
    Cardinality({i \in 1..Len(log) :
                    log[i].uid = uid /\ log[i].type = "dataset_ingested"})

\* C1: for every content size the chunk size chosen gives at most 10,000 parts
\* and is at most 5 GB
C1_PlanWithinLimits ==
    chunk_size # NoBytes =>
        /\ BCeilDiv(content_size, chunk_size) <= S3MaxParts
        /\ BLe(chunk_size, Bytes(5 * 1024, 0))

\* C2: the chunk size follows the policy table: 10 MiB below 100 GB, 100 MiB from
\* 100 GB to below 1 TB, 500 MiB from 1 TB
C2_PolicyTable ==
    chunk_size # NoBytes =>
        chunk_size = IF BLt(content_size, Threshold100GB) THEN ChunkSmall
                     ELSE IF BLt(content_size, Threshold1TB) THEN ChunkMedium
                     ELSE ChunkLarge

\* C3: a request that creates a session (a chunk request without id, a whole-file
\* ingest) is answered TierLimitError, carrying the cap of the user's tier, exactly
\* when the user's 'dataset_ingested' count plus one reaches the cap
C3_QuotaAdmission ==
    [][(nreq' # nreq /\ last'.req.id = None) =>
          LET uid == last'.req.uid
              count == IngestedCount(usage, uid)
              cap == UploadCap(uid)
          IN  IF count + 1 >= cap
              THEN last'.res.err = "TierLimitError" /\ last'.res.cap = cap
              ELSE last'.res.err # "TierLimitError"]_vars

\* a session creation was denied at the cap, with the cap in the error
C3_Witness ==
    /\ last.req.id = None
    /\ last.res.err = "TierLimitError"
    /\ last.res.cap = UploadCap(last.req.uid)
    /\ IngestedCount(usage, last.req.uid) + 1 = UploadCap(last.req.uid)

\* C4: once a session of a user holds bytes and has no Dataset yet, no later
\* request of that user for that upload is answered TierLimitError, whether it
\* carries the session id (a chunk) or comes without it (a resume), and whatever
\* the usage of the user is by then
C4_NoQuotaCheckAfterAdmission ==
    [][(/\ nreq' # nreq
        /\ \E id \in GivenIds :
               /\ Received(id) # {}
               /\ ~\E d \in datasets : d.id = id
               /\ last'.req.id \in {None, id})
       => last'.res.err # "TierLimitError"]_vars

\* the datasets a uid has a 'dataset_ingested' record for
IngestedDatasets(log, uid) ==
    {log[i].payload.dataset :
        i \in {i \in 1..Len(log) :
                  log[i].uid = uid /\ log[i].type = "dataset_ingested"}}

\* C5: sessions of one user cannot race past the cap: an admission at count c needs
\* c + 1 < cap, so the datasets a user has ingestion records for (and so the
\* records themselves) stay fewer than the cap
C5_NeverPastTheCap ==
    \A u \in Uids : Cardinality(IngestedDatasets(usage, u)) < UploadCap(u)

\* C6: no two persisted Dataset records have the same name
C6_UniqueNames ==
    \A d1 \in datasets, d2 \in datasets : d1.name = d2.name => d1 = d2

\* C7: a Dataset record exists only for an upload whose every part was received
C7_OnlyCompleteUploads ==
    \A d \in datasets : Received(d.id) = 1..FileParts

\* C8: a user who uploaded some parts of a file and asks again without the session
\* id (a resume) is given the session that holds those parts
C8_ResumeReturnsTheSession ==
    [][(/\ nreq' # nreq
        /\ last'.req.id = None
        /\ last'.res.err = "ok"
        /\ last'.res.dataset = {}
        /\ \E id \in GivenIds :
              Received(id) # {} /\ ~\E d \in datasets : d.id = id)
       => last'.res.id \in GivenIds]_vars

\* C9: the parallel uploader submits every part that is not in the received parts,
\* once, and no part that is
C9_DispatchesExactlyTheMissingParts ==
    c_pc # "idle" =>
        LET all_parts == 1..BCeilDiv(c_size, get_chunk_size(c_size))
            received_parts == {c_parts[i].val : i \in 1..Len(c_parts)}
        IN  /\ {c_tasks[i].part.val : i \in 1..Len(c_tasks)} = all_parts \ received_parts
            /\ \A i, j \in 1..Len(c_tasks) :
                  c_tasks[i].part.val = c_tasks[j].part.val => i = j

\* C10: a part already stored for a session is not stored again
C10_PartStoredOnce ==
    [][\A id \in AllIds : \A w \in DOMAIN storage'[id] :
          (w \notin DOMAIN storage[id] \/ storage'[id][w] > storage[id][w])
              => w.parts \cap Received(id) = {}]_vars

\* C11: no part whose bytes differ from the checksum sent with it is stored: a
\* damaged part is refused and the parts held for the session stay as they were
C11_NoDamagedPartStored ==
    \A id \in AllIds : \A w \in DOMAIN storage[id] : Intact(w.parts)

\* the store calls of one ingestion that were applied: the Dataset record, and
\* for its user the counter increments and the 'dataset_ingested' records
HasDataset(id) == \E d \in datasets : d.id = id
HasUsage(id) ==
    \E i \in 1..Len(usage) :
        usage[i].type = "dataset_ingested" /\ usage[i].payload.dataset = id

\* C12: whenever no final request is under way, each ingestion has its Dataset
\* record, its counter increment and its UsageRecord all applied or none applied
C12_FinalizeAllOrNothing ==
    fin = NoFinal =>
        /\ \A id \in AllIds : HasDataset(id) <=> HasUsage(id)
        /\ \A u \in Uids : users[u].dataset_count = IngestedCount(usage, u)

\* C13: a finalize is applied once per upload id: no id has two UsageRecords, and
\* a user's counter is the number of datasets the user has
C13_FinalizeAppliedOnce ==
    /\ \A i, j \in 1..Len(usage) :
          usage[i].payload.dataset = usage[j].payload.dataset => i = j
    /\ \A u \in Uids :
          users[u].dataset_count = Cardinality({d \in datasets : d.uid = u})

\* C14: a request answered TierLimitError or DatasetAlreadyExistsError changes
\* nothing: no id generated, no bytes stored, no Dataset, counter or UsageRecord
C14_RejectionChangesNothing ==
    [][(/\ nreq' # nreq
        /\ last'.res.err \in {"TierLimitError", "DatasetAlreadyExistsError"})
       => UNCHANGED <<users, usage, datasets, storage, nextId, pending>>]_vars

\* a session creation was refused for its name while bytes of other sessions and
\* the Dataset of that name were there to be kept
C14_Witness ==
    /\ last.req.id = None
    /\ last.res.err = "DatasetAlreadyExistsError"
    /\ datasets # {}
    /\ nextId > 1
    /\ \E id \in GivenIds : Received(id) # {}

\* C15: a request that ends in a name or description validation error has written
\* no bytes to the object store
C15_ValidationBeforeStorage ==
    [][(nreq' # nreq /\ last'.res.fields # <<>>)
          => storage' = storage]_vars

\* C16: validate_name accepts exactly the names of 3 to 15 characters, all letters,
\* digits or hyphens, the first a letter; a wrong length of allowed characters
\* starting with a letter is a NameLengthValidationError, a first character that is
\* no letter or a disallowed character is a NameCharsValidationError; "ab" and
\* "2ab" are refused so, "abc" is accepted
C16_NameRule ==
    v_out # NoOut =>
        LET n == Len(v_name)
            allowed == \A i \in 1..n : v_name[i] \in Letters \cup Digits \cup Hyphen
            first == n >= 1 /\ v_name[1] \in Letters
            length_ok == n >= 3 /\ n <= 15
        IN  /\ v_out.name = "ok" <=> (length_ok /\ allowed /\ first)
            /\ (allowed /\ first /\ ~length_ok)
                  => v_out.name = "NameLengthValidationError"
            /\ ((n >= 1 /\ ~first) \/ ~allowed)
                  => v_out.name = "NameCharsValidationError"
            /\ v_name = NameAb => v_out.name = "NameLengthValidationError"
            /\ v_name = Name2ab => v_out.name = "NameCharsValidationError"
            /\ v_name = NameAbc => v_out.name = "ok"

\* a name of 15 allowed characters was accepted
C16_Witness ==
    /\ v_out # NoOut
    /\ Len(v_name) = 15
    /\ v_out.name = "ok"

\* C17: validate_description accepts exactly the descriptions of 5 to 50
\* characters and raises DescriptionLengthValidationError for the others; no
\* Dataset is constructed with a description outside that range
C17_DescriptionRule ==
    v_out # NoOut =>
        LET n == Len(v_description)
        IN  /\ v_out.description = IF n >= 5 /\ n <= 50 THEN "ok"
                                   ELSE "DescriptionLengthValidationError"
            /\ \A d \in v_out.dataset :
                  Len(d.description) >= 5 /\ Len(d.description) <= 50

\* a Dataset was constructed with a description of 50 characters
C17_Witness ==
    /\ v_out # NoOut
    /\ Len(v_description) = 50
    /\ v_out.dataset # {}

\* the parts of the tasks whose upload gave a response other than 200
FailedParts ==
    {c_tasks[i].part.val : i \in {i \in 1..Len(c_tasks) : c_futures[i] = "failed"}}

\* C18: when a part upload fails, the call reports a partial failure that lists
\* the parts still missing
C18_ReportsPartialFailure ==
    (c_pc \in {"returned", "completed"} /\ FailedParts # {})
        => /\ c_result \notin {None, "Exception"}
           /\ c_result.missing = FailedParts

\* C19: complete is not sent after a part upload gave a response other than 200
C19_CompleteOnlyAfterAllParts ==
    c_pc = "completed" => FailedParts = {}

\* C20: the chunk transfers in flight are never more than the pool size, which is
\* the threads argument when it is > 0 and the CPU count otherwise, and each task
\* is one chunk: the bytes of one part, a part no other task has
C20_BoundedPool ==
    c_pc # "idle" =>
        /\ Cardinality(Running) <= (IF c_threads > 0 THEN c_threads ELSE CpuCount)
        /\ \A i \in 1..Len(c_tasks) :
              LET chunk == get_chunk_size(c_size)
                  k == c_tasks[i].part.val
              IN  /\ c_tasks[i].start = Bytes((k - 1) * chunk.mib, 0)
                  /\ c_tasks[i].end = BMin(Bytes(k * chunk.mib, 0), c_size)
        /\ \A i, j \in 1..Len(c_tasks) :
              c_tasks[i].part = c_tasks[j].part => i = j

\* the pool is full and a task waits for a free worker
C20_Witness ==
    /\ c_pc = "running"
    /\ Cardinality(Running) = (IF c_threads > 0 THEN c_threads ELSE CpuCount)
    /\ Queued # {}

\* C21: a part that failed or raised does not affect the others: when the call
\* hands control back to its caller, by returning or by raising, every task it
\* dispatched has been attempted and has finished
C21_EndsAfterEveryTask ==
    c_pc \in {"returned", "raised", "completed"} =>
        \A i \in 1..Len(c_futures) : c_futures[i] \in UploadChunkOutcomes

\* C22: the first-chunk requests of one user for one name and one file create at
\* most one session id
C22_OneSessionPerKey ==
    Cardinality(GivenIds) <= 1

\* C26: the tasks planned for a file of which no part was received partition it:
\* they are the parts 1..ceil(size / chunk_size) in order, part k covers the bytes
\* from (k-1)*chunk_size to min(k*chunk_size, size), every part but the last has
\* chunk_size bytes, and an empty file has no part; whatever parts were received,
\* every task is that byte range of its part and the tasks are in increasing order
C26_PlanPartitionsTheFile ==
    c_pc # "idle" =>
        LET chunk == get_chunk_size(c_size)
            Range(k) == [start |-> Bytes((k - 1) * chunk.mib, 0),
                         end |-> IF BLe(Bytes(k * chunk.mib, 0), c_size)
                                 THEN Bytes(k * chunk.mib, 0) ELSE c_size,
                         part |-> PyStr(k)]
        IN  /\ \A i \in 1..Len(c_tasks) :
                  /\ c_tasks[i].part.val >= 1
                  /\ c_tasks[i] = Range(c_tasks[i].part.val)
                  /\ BLt(c_tasks[i].start, c_tasks[i].end)
            /\ \A i, j \in 1..Len(c_tasks) :
                  i < j => BLe(c_tasks[i].end, c_tasks[j].start)
            /\ c_parts = <<>> =>
                  /\ Len(c_tasks) = BCeilDiv(c_size, chunk)
                  /\ \A k \in 1..Len(c_tasks) : c_tasks[k] = Range(k)
                  /\ \A k \in 1..(Len(c_tasks) - 1) :
                        c_tasks[k].end = BAdd(c_tasks[k].start, chunk)
                  /\ Len(c_tasks) > 0 => c_tasks[Len(c_tasks)].end = c_size
                  /\ c_size = Bytes(0, 0) => c_tasks = <<>>

\* a file of two whole chunks and one byte was planned as three parts
C26_Witness ==
    /\ c_pc # "idle"
    /\ c_parts = <<>>
    /\ c_size = Bytes(20, 1)
    /\ Len(c_tasks) = 3
    /\ c_tasks[3].start = Bytes(20, 0)
    /\ c_tasks[3].end = Bytes(20, 1)

\* C27: every upload path cuts a file of a given size with the same chunk size,
\* so a part number means the same byte range on every path
C27_SameChunkSizeOnEveryPath ==
    chunk_size # NoBytes => chunk_size = update_dataset_chunk_size

\* C29: for every uid the Dataset records owned by the uid, the increments of the
\* uid's dataset_count and the 'dataset_ingested' UsageRecords of the uid are
\* equally many
C29_BookkeepingConsistent ==
    \A u \in Uids :
        /\ Cardinality({d \in datasets : d.uid = u}) = users[u].dataset_count
        /\ users[u].dataset_count = IngestedCount(usage, u)

\* C25: a session that holds chunks and is neither finalized nor sent anything
\* more is reclaimed in the end: its stored chunks are removed
C25_AbandonedSessionsReclaimed ==
    \A id \in AllIds :
        []((DOMAIN storage[id] # {} /\ ~HasDataset(id))
              => <>(DOMAIN storage[id] = {} \/ HasDataset(id)))

\* C28: a request that carries the id of a session is accepted only from the
\* session's creator: every Dataset persisted for a session that u1 created under
\* the name 'abc' is owned by u1 and named 'abc'
C28_SessionsIsolated ==
    \A d \in datasets : d.uid = "u1" /\ d.name = NameAbc

\* C23: the version_ids of a dataset are 1..n in order, whatever was written: the
\* k-th version of the `versions` array has version_id k.
C23_VersionIdsCountFromOne ==
    \A k \in 1..Len(d_versions) : d_versions[k].version_id = k

\* C30: a sequential upload sends parts in increasing order, sends no part after
\* one that was not answered 200 (the call then ends with the exception or with
\* (None, detail)), reads every chunk up to where it stops, and never sends a part
\* its `parts` list holds as a number.
C30_StopsAtFirstFailedPart ==
    /\ \A i, j \in 1..Len(s_sent) : i < j => s_sent[i] < s_sent[j]
    /\ \A i \in 1..Len(s_read) : s_read[i] = i
    /\ \A i \in 1..Len(s_sent) :
           /\ ~In(PyInt(s_sent[i]), s_parts)
           /\ \E j \in 1..Len(s_read) : s_read[j] = s_sent[i]
    /\ s_failed # <<>> =>
           /\ Len(s_failed) = 1
           /\ s_sent[Len(s_sent)] = s_failed[1].part
           /\ s_pc = "done"
           /\ s_result = SeqFailure(s_path, s_failed[1].outcome)
    /\ (s_pc \in {"complete", "done"} /\ s_failed = <<>> /\ s_size # NoBytes) =>
           /\ Len(s_read) = BCeilDiv(s_size, SeqChunkSize(s_path, s_size))
           /\ \A k \in 1..Len(s_read) :
                  In(PyInt(k), s_parts) \/ \E i \in 1..Len(s_sent) : s_sent[i] = k

\* update_dataset of a file of three chunks whose first part is listed: part 1 is
\* read and skipped, part 2 is answered with an error, part 3 is never read
C30_Witness ==
    /\ s_pc = "done"
    /\ s_path = "update_dataset"
    /\ BCeilDiv(s_size, update_dataset_chunk_size) = 3
    /\ In(PyInt(1), s_parts)
    /\ s_read = <<1, 2>>
    /\ s_sent = <<2>>
    /\ s_failed = <<[part |-> 2, outcome |-> "failed"]>>
    /\ s_result = SeqResult("return", None, "detail")

====
